---- MODULE Spec2Model ----
(***************************************************************************)
(* A model of scrape.py: the fetch layer (http_get), the pagination        *)
(* controller (iterate_pages), the per-card record extraction and the      *)
(* history / snapshot writer of main().                                    *)
(*                                                                         *)
(* Text is a sequence of atoms (one-character or one-word strings).  The   *)
(* absent value None and the pandas missing value NaN are the one-atom     *)
(* sequences NoneVal and NaN, which no text of the model equals.           *)
(***************************************************************************)
EXTENDS Integers, Sequences, FiniteSets, TLC

VARIABLES
    pc,            \* position of main(): idle, sites, pages, write, done, crashed
    runNo,         \* number of runs of main() started so far
    siteIdx,       \* index of the row of the catalog the for loop of line 164 is at
    page_urls,     \* page_urls of line 184
    pageIdx,       \* index in page_urls of the for loop of line 188
    history_rows,  \* history_rows of line 160
    historyFile,   \* out/products_history.csv: [exists, lines]
    snapshotFile,  \* out/current_snapshot.csv: [exists, lines]
    exitOk,        \* the run ended without an uncaught exception
    h,             \* the frame of one http_get call
    pg,            \* the frame of one iterate_pages call
    cd,            \* one card and the record extracted from it
    gc,            \* the frame of one get_cards call
    df,            \* df of line 159: the rows of the catalog of sites
    net            \* the requests and sleeps of the run for the site it is at

vars == <<pc, runNo, siteIdx, page_urls, pageIdx, history_rows, historyFile,
          snapshotFile, exitOk, h, pg, cd, gc, df, net>>

mainVars == <<pc, runNo, siteIdx, page_urls, pageIdx, history_rows, historyFile,
              snapshotFile, exitOk, df, net>>

NoneVal == <<"None">>

NaN == <<"NaN">>

----------------------------------------------------------------------------
(* Text *)

\* The atoms that are whitespace.
Whitespace == {" ", "\t"}

\* str.lower() on one atom.
LowerAtom(a) ==
    CASE a = "A" -> "a"
      [] a = "Just" -> "just"
      [] a = "JUST" -> "just"
      [] a = "MOMENT" -> "moment"
      [] a = "Captcha" -> "captcha"
      [] a = "CAPTCHA" -> "captcha"
      [] a = "Access" -> "access"
      [] a = "Denied" -> "denied"
      [] a = "Out" -> "out"
      [] a = "OUT" -> "out"
      [] a = "Of" -> "of"
      [] a = "OF" -> "of"
      [] a = "Stock" -> "stock"
      [] a = "STOCK" -> "stock"
      [] a = "Sold" -> "sold"
      [] a = "SOLD" -> "sold"
      [] a = "In" -> "in"
      [] a = "Products" -> "products"
      [] OTHER -> a

\* str.lower()
Lower(s) == [i \in 1..Len(s) |-> LowerAtom(s[i])]

\* sub in s: sub occurs in s as a contiguous run
Contains(sub, s) ==
    \E i \in 0..(Len(s) - Len(sub)) :
        \A j \in 1..Len(sub) : s[i + j] = sub[j]

RECURSIVE StripLeft(_)
StripLeft(s) ==
    IF s # <<>> /\ Head(s) \in Whitespace THEN StripLeft(Tail(s)) ELSE s

RECURSIVE StripRight(_)
StripRight(s) ==
    IF s # <<>> /\ s[Len(s)] \in Whitespace
    THEN StripRight(SubSeq(s, 1, Len(s) - 1))
    ELSE s

\* re.sub(r"\s+", " ", s): every run of whitespace becomes one space
RECURSIVE CollapseWs(_)
CollapseWs(s) ==
    IF s = <<>> THEN <<>>
    ELSE IF Head(s) \in Whitespace
         THEN <<" ">> \o CollapseWs(StripLeft(s))
         ELSE <<Head(s)>> \o CollapseWs(Tail(s))

\* clean_text: (s or "").strip(), then runs of whitespace collapsed
clean_text(s) ==
    CollapseWs(StripRight(StripLeft(IF s = NoneVal THEN <<>> ELSE s)))

\* Python truthiness of a str-or-None value
Truthy(s) == s # NoneVal /\ s # <<>>

\* Code point order of the atoms that occur in site names, product names and URLs.
AtomRank(a) ==
    CASE a = "NaN" -> 99
      [] a = "a" -> 1
      [] a = "b" -> 2
      [] a = "c" -> 3
      [] a = "n" -> 4
      [] a = "|" -> 5
      [] OTHER -> 0

\* s < t for str: lexicographic by code point
RECURSIVE StrLess(_, _)
StrLess(s, t) ==
    IF t = <<>> THEN FALSE
    ELSE IF s = <<>> THEN TRUE
    ELSE IF AtomRank(Head(s)) # AtomRank(Head(t))
         THEN AtomRank(Head(s)) < AtomRank(Head(t))
         ELSE StrLess(Tail(s), Tail(t))

----------------------------------------------------------------------------
(* The CSV files and the snapshot (main, lines 251-268) *)

\* The line of column names that to_csv writes first, and that line 268 writes.
HeaderLine == [kind |-> "header"]

\* One row of history_rows as DataFrame.to_csv writes it: a missing value is
\* written as the empty field.
CsvLine(r) ==
    [kind |-> "row",
     timestamp_iso |-> r.timestamp_iso,
     site_name |-> IF r.site_name = NaN THEN <<>> ELSE r.site_name,
     product_name |-> IF r.product_name = NaN THEN <<>> ELSE r.product_name,
     product_url |-> IF r.product_url = NaN THEN <<>> ELSE r.product_url,
     status |-> r.status,
     raw_price_text |-> IF r.raw_price_text = NaN THEN <<>> ELSE r.raw_price_text,
     source_url |-> r.source_url]

\* DataFrame.to_csv(rows, header=...)
ToCsv(rows, header) ==
    (IF header THEN <<HeaderLine>> ELSE <<>>) \o [i \in 1..Len(rows) |-> CsvLine(rows[i])]

\* The fields pandas.read_csv reads as missing (its default na_values), among
\* the texts of the model: the empty field and the word nan.
NaTokens == {<<>>, <<"n", "a", "n">>}

\* One field as pandas.read_csv parses it.
ReadCell(c) == IF c \in NaTokens THEN NaN ELSE c

\* pandas.read_csv: the first line names the columns, the others are the rows.
ReadCsv(lines) ==
    [i \in 1..(Len(lines) - 1) |->
        LET l == lines[i + 1] IN
        [timestamp_iso |-> l.timestamp_iso,
         site_name |-> ReadCell(l.site_name),
         product_name |-> ReadCell(l.product_name),
         product_url |-> ReadCell(l.product_url),
         status |-> l.status,
         raw_price_text |-> ReadCell(l.raw_price_text),
         source_url |-> l.source_url]]

\* Series.astype(str) on one value: the missing value becomes the word nan.
AsStr(c) == IF c = NaN THEN <<"n", "a", "n">> ELSE c

\* hist_all["key"] of line 260
KeyOf(r) == AsStr(r.site_name) \o <<"|">> \o AsStr(r.product_url)

\* IdxMax with idxmin in place of idxmax: the first index of the group that
\* holds the group's least timestamp.
IdxMin(hist, k) ==
    LET grp == {i \in 1..Len(hist) : KeyOf(hist[i]) = k}
        low == {i \in grp : \A j \in grp : hist[i].timestamp_iso <= hist[j].timestamp_iso}
    IN  CHOOSE i \in low : \A j \in low : i <= j

\* groupby("key")["timestamp_iso"].idxmax() for one key: the first index of
\* the group that holds the group's greatest timestamp.
IdxMax(hist, k) ==
    LET grp == {i \in 1..Len(hist) : KeyOf(hist[i]) = k}
        top == {i \in grp : \A j \in grp : hist[j].timestamp_iso <= hist[i].timestamp_iso}
    IN  CHOOSE i \in top : \A j \in top : i <= j

\* The keys of a set in ascending order (groupby sorts its groups by key).
RECURSIVE SortedKeys(_)
SortedKeys(ks) ==
    IF ks = {} THEN <<>>
    ELSE LET m == CHOOSE x \in ks : \A y \in ks \ {x} : StrLess(x, y)
         IN  <<m>> \o SortedKeys(ks \ {m})

\* The order of sort_values(["site_name", "product_name"]); a missing value
\* sorts last.
RowLess(a, b) ==
    \/ StrLess(a.site_name, b.site_name)
    \/ a.site_name = b.site_name /\ StrLess(a.product_name, b.product_name)

\* r put into a sorted sequence, after the rows that do not sort after it.
RECURSIVE InsertRow(_, _)
InsertRow(sorted, r) ==
    IF sorted = <<>> THEN <<r>>
    ELSE IF RowLess(r, Head(sorted)) THEN <<r>> \o sorted
    ELSE <<Head(sorted)>> \o InsertRow(Tail(sorted), r)

\* sort_values: a stable sort
RECURSIVE SortRows(_)
SortRows(rows) ==
    IF rows = <<>> THEN <<>>
    ELSE InsertRow(SortRows(SubSeq(rows, 1, Len(rows) - 1)), rows[Len(rows)])

\* Lines 259-262: snap, from the lines of the history file.
BuildSnapshot(lines) ==
    LET hist_all == ReadCsv(lines)
        keys == SortedKeys({KeyOf(hist_all[i]) : i \in 1..Len(hist_all)})
        latest_idx == [n \in 1..Len(keys) |-> IdxMax(hist_all, keys[n])]
    IN  SortRows([n \in 1..Len(latest_idx) |-> hist_all[latest_idx[n]]])

\* AppendHistory with the file opened in mode "w" instead of "a".
AppendHistoryOverwrite(file, rows) ==
    [exists |-> TRUE, lines |-> ToCsv(rows, TRUE)]

\* Lines 255-258: the history file after hist_df.to_csv.
AppendHistory(file, rows) ==
    IF file.exists
    THEN [exists |-> TRUE, lines |-> file.lines \o ToCsv(rows, FALSE)]
    ELSE [exists |-> TRUE, lines |-> ToCsv(rows, TRUE)]

\* Lines 263 and 267-268: the snapshot file is written anew.
SnapshotOf(histFile, rows) ==
    IF rows # <<>>
    THEN [exists |-> TRUE, lines |-> ToCsv(BuildSnapshot(histFile.lines), TRUE)]
    ELSE [exists |-> TRUE, lines |-> <<HeaderLine>>]

NoFile == [exists |-> FALSE, lines |-> <<>>]

----------------------------------------------------------------------------
(* http_get (lines 82-103) *)

DESKTOP_UA == "desktop"

MOBILE_UA == "mobile"

\* retries=4, the default of line 82; no caller passes another.
DefaultRetries == 4

\* What http_get returns when no attempt was usable: last, which is None.
NoResponse == [kind |-> "none"]

\* bot_signals of line 93
bot_signals ==
    << <<"Just", "a", "moment">>, <<"cf-browser-verification">>, <<"captcha">>,
       <<"Access", "Denied">> >>

\* IsBotWall without the two lower() calls.
IsBotWallCaseSensitive(text) ==
    \E n \in 1..Len(bot_signals) : Contains(bot_signals[n], text)

\* Line 94: any(sig.lower() in r.text.lower() for sig in bot_signals)
IsBotWall(text) ==
    \E n \in 1..Len(bot_signals) : Contains(Lower(bot_signals[n]), Lower(text))

\* Lines 91-97: the response is returned to the caller.
Usable(out) ==
    /\ out.kind = "response"
    /\ out.status_code = 200
    /\ out.text # <<>>
    /\ ~IsBotWall(out.text)

\* UserAgent with the test of line 88 as attempt >= 1.
UserAgentFromSecond(attempt, mobile_fallback) ==
    IF attempt >= 1 /\ mobile_fallback THEN MOBILE_UA ELSE DESKTOP_UA

\* Lines 87-89: the User-Agent of one attempt.
UserAgent(attempt, mobile_fallback) ==
    IF attempt >= 2 /\ mobile_fallback THEN MOBILE_UA ELSE DESKTOP_UA

\* Attempts with range(1, retries): one attempt fewer.
AttemptsOneLess(retries) == IF retries > 1 THEN retries - 1 ELSE 0

\* range(retries) of line 85: the number of attempts of the loop.
Attempts(retries) == IF retries > 0 THEN retries ELSE 0

\* The frame of a call that has not yet issued a request.  With no attempt to
\* make, the loop is skipped and line 103 returns None.
HttpEnter(url, retries, mobile_fallback) ==
    [state |-> IF Attempts(retries) = 0 THEN "returned" ELSE "running",
     url |-> url, retries |-> retries, mobile_fallback |-> mobile_fallback,
     attempt |-> 0, log |-> <<>>, uas |-> <<>>, events |-> <<>>,
     result |-> NoResponse]

\* One pass of the loop of lines 85-102, the server answering `out`; the pass
\* that ends the loop also returns (line 103).
HttpAttempt(f, out) ==
    LET ua == UserAgent(f.attempt, f.mobile_fallback)
        sent == [f EXCEPT !.log = Append(@, out), !.uas = Append(@, ua)]
    IN  IF Usable(out)
        THEN [sent EXCEPT !.state = "returned", !.result = out,
                          !.events = Append(@, "GET")]
        ELSE [sent EXCEPT !.attempt = @ + 1,
                          !.events = @ \o <<"GET", "SLEEP">>,
                          !.state = IF f.attempt + 1 >= Attempts(f.retries)
                                    THEN "returned" ELSE "running"]

\* A whole call, the server answering outs[1], outs[2], ... in turn.
RECURSIVE HttpRun(_, _)
HttpRun(f, outs) ==
    IF f.state = "returned" THEN f
    ELSE HttpRun(HttpAttempt(f, Head(outs)), Tail(outs))

http_get(url, retries, mobile_fallback, outs) ==
    HttpRun(HttpEnter(url, retries, mobile_fallback), outs)

\* The requests (line 90) and the backoff sleeps (line 102) of a call that has
\* returned, as the caller sees them: phase says which loop made the call,
\* call which call of that site it is.
NetOfCall(f, phase, call) ==
    [i \in 1..Len(f.events) |->
        [ev |-> f.events[i],
         why |-> IF f.events[i] = "GET" THEN "request" ELSE "backoff",
         phase |-> phase, url |-> f.url, call |-> call]]

\* jitter_sleep (lines 79-80) as the callers of lines 152 and 249 run it.
jitter_sleep(phase, url) ==
    [ev |-> "SLEEP", why |-> "jitter", phase |-> phase, url |-> url, call |-> 0]

\* The page texts a server of the model sends.
Bodies ==
    { <<>>,
      <<"Products">>,
      <<"Just", "a", "moment">>,
      <<"JUST", "A", "MOMENT">>,
      <<"Products", "CAPTCHA">>,
      <<"cf-browser-verification">>,
      <<"Access", "Denied", "Products">>,
      <<"access", "Products", "denied">> }

\* What one GET can end in: a transport fault or a response.
Outcomes ==
    {[kind |-> "exception"]}
    \cup {[kind |-> "response", status_code |-> 503, text |-> <<"Access", "Denied">>]}
    \cup {[kind |-> "response", status_code |-> 200, text |-> b] : b \in Bodies}

\* The retry counts a call of the model is made with.
MaxRetries == 4

HttpIdle == [state |-> "idle"]

\* A caller enters http_get.
HttpCall ==
    /\ h.state \in {"idle", "returned"}
    /\ \E retries \in 0..MaxRetries, mobile_fallback \in BOOLEAN :
           h' = HttpEnter("u", retries, mobile_fallback)
    /\ UNCHANGED <<mainVars, pg, cd, gc>>

\* The server answers the request of the current attempt.
HttpStep ==
    /\ h.state = "running"
    /\ \E out \in Outcomes : h' = HttpAttempt(h, out)
    /\ UNCHANGED <<mainVars, pg, cd, gc>>

----------------------------------------------------------------------------
(* iterate_pages (lines 124-155) *)

(* A URL is [path, query]: the text before the "?" and the query as the     *)
(* sequence of its <<name, value>> pairs.  A next link is a record: no      *)
(* element matched (kind "none"), an element with no or an empty href       *)
(* ("nohref"), an absolute URL ("abs") or a relative reference that is only *)
(* a query, such as "?page=2" ("query").                                    *)

\* d[k] = v on a dict kept as the sequence of its items, in insertion order
DictSet(d, k, v) ==
    IF \E i \in 1..Len(d) : d[i][1] = k
    THEN [i \in 1..Len(d) |-> IF d[i][1] = k THEN <<k, v>> ELSE d[i]]
    ELSE Append(d, <<k, v>>)

\* dict(pairs)
RECURSIVE ToDict(_)
ToDict(pairs) ==
    IF pairs = <<>> THEN <<>>
    ELSE LET n == Len(pairs)
         IN  DictSet(ToDict(SubSeq(pairs, 1, n - 1)), pairs[n][1], pairs[n][2])

\* urllib.parse.parse_qsl: the pairs of the query, those with a blank value left out
parse_qsl(query) == SelectSeq(query, LAMBDA kv : kv[2] # "")

\* page_param or "page"
ParamName(page_param) == IF page_param = "" THEN "page" ELSE page_param

\* Lines 130-134: the URL of page p
ParamUrl(url, page_param, p) ==
    [path |-> url.path,
     query |-> DictSet(ToDict(parse_qsl(url.query)), ParamName(page_param), ToString(p))]

\* int(v or 1) of lines 127, 128 and 140
IntOr1(v) == IF v = 0 THEN 1 ELSE v

\* list(range(a, b))
Range(a, b) == [i \in 1..(b - a) |-> a + i - 1]

\* Lines 127-135: the param branch
ParamPages(url, page_param, start_page, max_pages) ==
    LET sp == IntOr1(start_page)
        mx == IntOr1(max_pages)
        ps == Range(sp, sp + mx)
    IN  [i \in 1..Len(ps) |-> ParamUrl(url, page_param, ps[i])]

\* abs_url(base, href) = urljoin(base, href) for the two kinds of href
abs_url(base, href) ==
    IF href.kind = "abs" THEN href.url
    ELSE [path |-> base.path, query |-> href.query]

\* The frame of a call of iterate_pages before the first pass of a loop.  The
\* param and the single-page branch fetch nothing and return at once.
PagesEnter(url, paging_mode, page_param, start_page, max_pages, mobile_fallback) ==
    LET f == [state |-> "returned", mode |-> paging_mode, url |-> url,
              page_param |-> page_param, start_page |-> start_page,
              max_pages |-> max_pages, mobile_fallback |-> mobile_fallback,
              urls |-> <<>>, visited |-> {}, cur |-> url, i |-> 0,
              mx |-> IntOr1(max_pages), gets |-> 0, fetched |-> <<>>, stop |-> "none",
              events |-> <<>>]
    IN  IF paging_mode = "param"
        THEN [f EXCEPT !.urls = ParamPages(url, page_param, start_page, max_pages),
                       !.stop = "range"]
        ELSE IF paging_mode = "link"
        THEN IF f.mx > 0 THEN [f EXCEPT !.state = "running"]
                         ELSE [f EXCEPT !.stop = "max_pages"]
        ELSE [f EXCEPT !.urls = <<url>>, !.stop = "single"]

\* LinkPass with the last pass of the loop adding its URL without fetching it.
LinkPassLastUnfetched(f, r) ==
    IF f.cur \in f.visited
    THEN [f EXCEPT !.state = "returned", !.stop = "visited"]
    ELSE IF f.i + 1 >= f.mx
    THEN [f EXCEPT !.visited = @ \cup {f.cur}, !.urls = Append(@, f.cur),
                   !.i = @ + 1, !.state = "returned", !.stop = "max_pages"]
    ELSE LET g == [f EXCEPT !.visited = @ \cup {f.cur},
                            !.urls = Append(@, f.cur),
                            !.gets = @ + Len(r.log),
                            !.fetched = Append(@, f.cur),
                            !.events = @ \o NetOfCall(r, "paginate", Len(f.fetched) + 1)]
         IN  IF r.result = NoResponse
             THEN [g EXCEPT !.state = "returned", !.stop = "fetch_failed"]
             ELSE IF r.result.next.kind \in {"none", "nohref"}
             THEN [g EXCEPT !.state = "returned", !.stop = "no_next"]
             ELSE [g EXCEPT !.cur = abs_url(f.cur, r.result.next),
                            !.events = Append(@, jitter_sleep("paginate", f.cur)),
                            !.i = @ + 1, !.state = "running"]

\* LinkPass with the URL added to urls only once its fetch has succeeded.
LinkPassAppendLate(f, r) ==
    IF f.cur \in f.visited
    THEN [f EXCEPT !.state = "returned", !.stop = "visited"]
    ELSE LET g == [f EXCEPT !.visited = @ \cup {f.cur},
                            !.gets = @ + Len(r.log),
                            !.fetched = Append(@, f.cur),
                            !.events = @ \o NetOfCall(r, "paginate", Len(f.fetched) + 1)]
         IN  IF r.result = NoResponse
             THEN [g EXCEPT !.state = "returned", !.stop = "fetch_failed"]
             ELSE IF r.result.next.kind \in {"none", "nohref"}
             THEN [g EXCEPT !.state = "returned", !.stop = "no_next",
                            !.urls = Append(@, f.cur)]
             ELSE [g EXCEPT !.cur = abs_url(f.cur, r.result.next),
                            !.urls = Append(@, f.cur),
                            !.events = Append(@, jitter_sleep("paginate", f.cur)),
                            !.i = @ + 1,
                            !.state = IF f.i + 1 >= f.mx THEN "returned" ELSE "running",
                            !.stop = IF f.i + 1 >= f.mx THEN "max_pages" ELSE "none"]

\* One pass of the loop of lines 141-152; r is the frame http_get returned for
\* the fetch of line 145 (unused when line 142 breaks).  The pass that ends
\* the loop also returns (line 155).
LinkPass(f, r) ==
    IF f.cur \in f.visited
    THEN [f EXCEPT !.state = "returned", !.stop = "visited"]
    ELSE LET g == [f EXCEPT !.visited = @ \cup {f.cur},
                            !.urls = Append(@, f.cur),
                            !.gets = @ + Len(r.log),
                            !.fetched = Append(@, f.cur),
                            !.events = @ \o NetOfCall(r, "paginate", Len(f.fetched) + 1)]
         IN  IF r.result = NoResponse
             THEN [g EXCEPT !.state = "returned", !.stop = "fetch_failed"]
             ELSE IF r.result.next.kind \in {"none", "nohref"}
             THEN [g EXCEPT !.state = "returned", !.stop = "no_next"]
             ELSE [g EXCEPT !.cur = abs_url(f.cur, r.result.next),
                            !.events = Append(@, jitter_sleep("paginate", f.cur)),
                            !.i = @ + 1,
                            !.state = IF f.i + 1 >= f.mx THEN "returned" ELSE "running",
                            !.stop = IF f.i + 1 >= f.mx THEN "max_pages" ELSE "none"]

----------------------------------------------------------------------------
(* The extraction of one card (main, lines 204-248) *)

(* A card is the record of what each selector finds in it: the text of the  *)
(* element the configured selector matches (name_sel, price_sel,            *)
(* status_sel, link_sel), the text the generic selectors of lines 208-210,  *)
(* 214-215 and 219 find (name_generic, price_generic, status_generic) and   *)
(* the href of its first a[href] (link_any); NoneVal where nothing matches. *)
(* A configured selector is "" when the site sets none.                     *)

\* A URL as the text the CSV holds.
RECURSIVE QueryText(_)
QueryText(q) ==
    IF q = <<>> THEN <<>>
    ELSE (IF Len(q) > 1 THEN QueryText(SubSeq(q, 1, Len(q) - 1)) \o <<"&">> ELSE <<>>)
         \o <<q[Len(q)][1], "=", q[Len(q)][2]>>

UrlText(u) == u.path \o (IF u.query = <<>> THEN <<>> ELSE <<"?">> \o QueryText(u.query))

\* The atom a text starts with when it is an absolute URL (scheme and host).
Origin == "x/"

\* abs_url(page_url, href) on the href of a product link, as text: urljoin
\* returns the base for an empty or absent href, an absolute href as it is,
\* and resolves a relative one against the directory of the base.
abs_url_text(page_url, href) ==
    IF ~Truthy(href) THEN UrlText(page_url)
    ELSE IF Head(href) = Origin THEN href
    ELSE SubSeq(page_url.path, 1, Len(page_url.path) - 1) \o href

\* pick_attr (lines 62-77) for a selector that reads the text of the element.
pick_text(selector, found) == IF selector = "" THEN NoneVal ELSE found

\* pick_attr for the product link: a selector with "@href" reads the href and
\* makes it absolute, any other reads the text of the element.
pick_link(selector, found, page_url) ==
    IF selector = "" \/ found = NoneVal THEN NoneVal
    ELSE IF selector = "a@href" THEN abs_url_text(page_url, found)
    ELSE found

\* a or b on str-or-None values
Or(a, b) == IF Truthy(a) THEN a ELSE b

\* re.search(soldout_regex, status_text, flags=re.I) for a valid pattern: one
\* of its alternatives occurs in the text, whatever the case.
SoldOutMatch(regex, status_text) ==
    \E alt \in regex.alts : Contains(Lower(alt), Lower(status_text))

\* Classify with the price tested before the sold-out pattern.
ClassifyPriceFirst(regex, status_text, raw_price) ==
    IF Truthy(raw_price) /\ Len(clean_text(raw_price)) > 0 THEN "Available"
    ELSE IF SoldOutMatch(regex, status_text) THEN "Sold Out"
    ELSE "Unknown"

\* Lines 228-232
Classify(regex, status_text, raw_price) ==
    IF SoldOutMatch(regex, status_text) THEN "Sold Out"
    ELSE IF Truthy(raw_price) /\ Len(clean_text(raw_price)) > 0 THEN "Available"
    ELSE "Unknown"

\* Lines 205-210
CardName(site, card) ==
    LET name == IF site.name_selector # ""
                THEN clean_text(pick_text(site.name_selector, card.name_sel))
                ELSE <<>>
    IN  IF name # <<>> THEN name ELSE clean_text(card.name_generic)

\* Lines 212-215
CardRawPrice(site, card) ==
    LET raw_price == IF site.price_selector # ""
                     THEN pick_text(site.price_selector, card.price_sel)
                     ELSE NoneVal
    IN  IF Truthy(raw_price) THEN raw_price ELSE card.price_generic

\* Lines 217-219
CardStatusText(site, card) ==
    LET status_text == IF site.status_selector # ""
                       THEN clean_text(pick_text(site.status_selector, card.status_sel))
                       ELSE <<>>
    IN  IF status_text # <<>> THEN status_text ELSE clean_text(card.status_generic)

\* Lines 222-226
CardProductUrl(site, card, page_url) ==
    LET product_url == Or(pick_link(site.product_url_selector, card.link_sel, page_url), <<>>)
    IN  IF product_url # <<>> THEN product_url
        ELSE IF Truthy(card.link_any) THEN abs_url_text(page_url, card.link_any)
        ELSE <<>>

\* parse_price (lines 46-60): raw_price_text
RawPriceText(raw_price) == IF raw_price = NoneVal THEN <<>> ELSE clean_text(raw_price)

\* Line 229 raises re.error when the pattern of the site does not compile.
CardRaises(site) == ~site.soldout_regex.valid

\* Lines 205-248: the row one card adds to history_rows.
ExtractCard(site, card, page_url, ts) ==
    LET name == CardName(site, card)
        raw_price == CardRawPrice(site, card)
    IN  [timestamp_iso |-> ts,
         site_name |-> site.site_name,
         product_name |-> name,
         product_url |-> CardProductUrl(site, card, page_url),
         status |-> Classify(site.soldout_regex, CardStatusText(site, card), raw_price),
         raw_price_text |-> RawPriceText(raw_price),
         source_url |-> page_url]

\* Lines 204-248: the rows the cards of one page add, in the order of the cards.
ExtractCards(site, cards, page_url, ts) ==
    [i \in 1..Len(cards) |-> ExtractCard(site, cards[i], page_url, ts)]

----------------------------------------------------------------------------
(* get_cards (lines 105-122) *)

(* A page is a usable response with, besides its text, the href of its next *)
(* link and `found`: the cards each list selector matches in it (a selector *)
(* outside its domain matches nothing, or is invalid: line 111 and line 117 *)
(* leave cards empty either way).                                           *)

DEFAULT_LIST_SELECTORS ==
    << "ul.products li.product", "li.product", "article.prd", ".product-layout",
       ".product-thumb", ".product-card", ".product-item", "li.product-item" >>

\* soup.select(sel)
Select(page, sel) == IF sel \in DOMAIN page.found THEN page.found[sel] ELSE <<>>

\* FirstDefault with no break at line 121: the last default selector that
\* matches wins.
RECURSIVE FirstDefaultNoBreak(_, _)
FirstDefaultNoBreak(page, n) ==
    IF n > Len(DEFAULT_LIST_SELECTORS) THEN <<>>
    ELSE LET rest == FirstDefaultNoBreak(page, n + 1)
         IN  IF rest # <<>> THEN rest ELSE Select(page, DEFAULT_LIST_SELECTORS[n])

\* Lines 113-121: the cards of the first default selector that matches
RECURSIVE FirstDefault(_, _)
FirstDefault(page, n) ==
    IF n > Len(DEFAULT_LIST_SELECTORS) THEN <<>>
    ELSE IF Select(page, DEFAULT_LIST_SELECTORS[n]) # <<>>
         THEN Select(page, DEFAULT_LIST_SELECTORS[n])
         ELSE FirstDefault(page, n + 1)

get_cards(page, list_selector) ==
    LET cards == IF list_selector # "" THEN Select(page, list_selector) ELSE <<>>
    IN  IF cards # <<>> THEN cards ELSE FirstDefault(page, 1)

\* A selector that soup.select rejects: line 109 raises, line 111 catches.
InvalidSelectors == {"div..bad"}

\* The line printed for one selector: a [DEBUG] line with the number of
\* elements matched (lines 110, 120) or the [WARN] line of line 112.
Printed(what, sel, n) == [what |-> what, sel |-> sel, n |-> n]

\* Lines 107-112: what the attempt with the explicit selector prints.
PrimaryPrinted(page, list_selector) ==
    IF list_selector = "" THEN <<>>
    ELSE IF list_selector \in InvalidSelectors
    THEN <<Printed("invalid", list_selector, 0)>>
    ELSE <<Printed("primary", list_selector, Len(Select(page, list_selector)))>>

\* Lines 113-121: what the loop over the default selectors prints.
RECURSIVE FallbackPrinted(_, _)
FallbackPrinted(page, n) ==
    IF n > Len(DEFAULT_LIST_SELECTORS) THEN <<>>
    ELSE IF Select(page, DEFAULT_LIST_SELECTORS[n]) # <<>>
         THEN <<Printed("fallback", DEFAULT_LIST_SELECTORS[n],
                        Len(Select(page, DEFAULT_LIST_SELECTORS[n])))>>
         ELSE FallbackPrinted(page, n + 1)

\* The frame of a get_cards call that has returned: the lines it printed and
\* the value of line 122, which is the list of cards and nothing else.
CardsReturn(page, list_selector) ==
    LET primary == IF list_selector # "" THEN Select(page, list_selector) ELSE <<>>
    IN  [state |-> "returned", page |-> page, list_selector |-> list_selector,
         printed |-> PrimaryPrinted(page, list_selector)
                     \o (IF primary # <<>> THEN <<>> ELSE FallbackPrinted(page, 1)),
         returned |-> [cards |-> get_cards(page, list_selector)]]

CardsIdle == [state |-> "idle"]

----------------------------------------------------------------------------
(* The inputs of the model: URLs, pages, cards, sites *)

Cat == <<"x/", "cat">>

U0 == [path |-> Cat, query |-> <<>>]

U1 == [path |-> Cat, query |-> << <<"page", "1">> >>]

U2 == [path |-> Cat, query |-> << <<"page", "2">> >>]

\* A base URL that already has a query: a page parameter, a blank value.
UQ == [path |-> Cat, query |-> << <<"page", "7">>, <<"sort", "">>, <<"q", "tv">> >>]

\* The next links a page of the model can hold.
Hrefs ==
    { [kind |-> "none"], [kind |-> "nohref"],
      [kind |-> "abs", url |-> U0], [kind |-> "abs", url |-> U1],
      [kind |-> "abs", url |-> U2],
      [kind |-> "query", query |-> << <<"page", "2">> >>] }

DefaultRegex ==
    [valid |-> TRUE,
     alts |-> { <<"out", " ", "of", " ", "stock">>, <<"sold", " ", "out">> }]

\* A pattern that re does not compile, such as "(": line 229 raises re.error.
InvalidRegex == [valid |-> FALSE, alts |-> {}]

NoCardText ==
    [name_sel |-> NoneVal, name_generic |-> NoneVal, price_sel |-> NoneVal,
     price_generic |-> NoneVal, status_sel |-> NoneVal, status_generic |-> NoneVal,
     link_sel |-> NoneVal, link_any |-> NoneVal]

\* A card with a name, a price and a link whose text is c.
CardC ==
    [NoCardText EXCEPT !.name_generic = <<"n">>, !.price_generic = <<"1", "0">>,
                       !.link_sel = <<"c">>]

\* A card whose link text is b|c.
CardBC == [NoCardText EXCEPT !.name_generic = <<"a">>, !.link_sel = <<"b", "|", "c">>]

\* A card in which no selector finds a name or a link.
CardBare == [NoCardText EXCEPT !.price_generic = <<"1", "0">>]

\* A card marked out of stock that shows a price.
CardSold ==
    [NoCardText EXCEPT !.name_generic = <<"n">>, !.price_generic = <<"1", "0">>,
                       !.status_generic = <<"Out", " ", "Of", " ", "Stock">>,
                       !.link_sel = <<"c">>]

PageOf(text, next, found) ==
    [kind |-> "response", status_code |-> 200, text |-> text, next |-> next,
     found |-> found]

\* The pages the servers of the model serve.
Pages ==
    { PageOf(<<"Products">>, [kind |-> "none"],
             ("li.product" :> <<CardC>>) @@ ("div.item" :> <<CardC, CardSold>>)),
      PageOf(<<"Products">>, [kind |-> "query", query |-> << <<"page", "2">> >>],
             "div.item" :> <<CardBC>>),
      PageOf(<<"Products">>, [kind |-> "abs", url |-> U0], "div.item" :> <<CardBare, CardSold>>),
      PageOf(<<"Products">>, [kind |-> "nohref"], <<>>),
      PageOf(<<"Products", "CAPTCHA">>, [kind |-> "abs", url |-> U1],
             "li.product" :> <<CardC>>) }

\* The unusable answers of a server of the model.
Failures ==
    { [kind |-> "exception"],
      [kind |-> "response", status_code |-> 503, text |-> <<"Products">>] }

\* What the server answers to the successive attempts of one http_get call:
\* a page at once, a page after three failures, or only failures.
Scripts(pages) ==
    { [i \in 1..DefaultRetries |-> p] : p \in pages }
    \cup { [i \in 1..DefaultRetries |-> IF i <= 3 THEN f ELSE p] :
             f \in Failures, p \in pages }
    \cup { [i \in 1..DefaultRetries |-> f] : f \in Failures }

PageScripts == Scripts(Pages)

\* The pages of a listing, told apart by their next link only.
LinkScripts == Scripts({PageOf(<<"Products">>, n, <<>>) : n \in Hrefs})

BaseSite ==
    [site_name |-> <<"a">>, url |-> U0, list_selector |-> "div.item",
     name_selector |-> "", price_selector |-> "", status_selector |-> "",
     soldout_regex |-> DefaultRegex, product_url_selector |-> "a.link",
     paging_mode |-> "none", page_param |-> "page", start_page |-> 1,
     max_pages |-> 1, mobile_fallback |-> TRUE]

SiteA == BaseSite

SiteAB ==
    [BaseSite EXCEPT !.site_name = <<"a", "|", "b">>, !.list_selector = "",
                     !.paging_mode = "link", !.max_pages = 2]

SiteBad ==
    [BaseSite EXCEPT !.soldout_regex = InvalidRegex, !.paging_mode = "param",
                     !.max_pages = 0]

\* The catalogs of sites a run of the model reads.
Catalogs == { <<>>, <<SiteA>>, <<SiteAB>>, <<SiteA, SiteAB>>, <<SiteAB, SiteBad>> }

----------------------------------------------------------------------------
(* iterate_pages, step by step *)

PagesIdle == [state |-> "idle"]

\* The greatest max_pages and start_page of a catalog row of the model.
MaxPages == 3

MaxStartPage == 2

\* A caller enters iterate_pages in param mode.
PagesCallParam ==
    /\ pg.state \in {"idle", "returned"}
    /\ \E url \in {U0, UQ}, page_param \in {"", "page", "p"},
          start_page \in 0..MaxStartPage, max_pages \in 0..MaxPages :
           pg' = PagesEnter(url, "param", page_param, start_page, max_pages, TRUE)
    /\ UNCHANGED <<mainVars, h, cd, gc>>

\* A caller enters iterate_pages in link mode.
PagesCallLink ==
    /\ pg.state \in {"idle", "returned"}
    /\ \E url \in {U0, U1}, max_pages \in 0..MaxPages, mobile_fallback \in BOOLEAN :
           pg' = PagesEnter(url, "link", "page", 1, max_pages, mobile_fallback)
    /\ UNCHANGED <<mainVars, h, cd, gc>>

\* A caller enters iterate_pages in any other mode.
PagesCallNone ==
    /\ pg.state \in {"idle", "returned"}
    /\ \E url \in {U0, U1}, max_pages \in 0..MaxPages :
           pg' = PagesEnter(url, "none", "page", 1, max_pages, TRUE)
    /\ UNCHANGED <<mainVars, h, cd, gc>>

\* One pass of the link loop, with the http_get call of line 145.
LinkStep ==
    /\ pg.state = "running"
    /\ \E script \in LinkScripts :
           pg' = LinkPass(pg, http_get(pg.cur, DefaultRetries, pg.mobile_fallback, script))
    /\ UNCHANGED <<mainVars, h, cd, gc>>

----------------------------------------------------------------------------
(* get_cards, call by call *)

\* The selectors that match something in the pages of get_cards calls of the
\* model, and what they match there.
ListedSelectors == {"div.item", "li.product", ".product-card", "li.product-item"}

ListedCards == { <<>>, <<CardC>>, <<CardBC, CardSold>> }

\* A caller enters get_cards and the call returns.
CardsCall ==
    /\ gc.state = "idle"
    /\ \E found \in [ListedSelectors -> ListedCards],
          list_selector \in {"", "div.item", ".missing"} \cup InvalidSelectors :
           gc' = CardsReturn(PageOf(<<"Products">>, [kind |-> "none"], found),
                             list_selector)
    /\ UNCHANGED <<mainVars, h, pg, cd>>

----------------------------------------------------------------------------
(* The extraction of a card, step by step *)

CardIdle == [state |-> "idle"]

\* The texts a selector can find in a card of the model.
NameTexts == {NoneVal, <<" ", "a", " ", "\t", "b", " ">>}

PriceTexts == {NoneVal, <<>>, <<" ">>, <<"1", "0", " ", "EGP">>}

StatusTexts ==
    {NoneVal, <<"Out", " ", "Of", " ", " ", "Stock">>, <<"SOLD", " ", "OUT">>,
     <<"In", " ", "Stock">>}

LinkTexts == {NoneVal, <<"c">>, <<Origin, "c">>}

CardTexts ==
    [name_sel : {NoneVal, <<"n">>}, name_generic : NameTexts,
     price_sel : {NoneVal, <<" ">>}, price_generic : PriceTexts,
     status_sel : {NoneVal, <<"In", " ", "Stock">>}, status_generic : StatusTexts,
     link_sel : LinkTexts, link_any : {NoneVal, <<"c">>}]

\* The selector settings of a site of the model.
CardSites ==
    { [BaseSite EXCEPT !.name_selector = ns, !.price_selector = ps,
                       !.status_selector = ss, !.product_url_selector = ls,
                       !.soldout_regex = re] :
        ns \in {"", ".title"}, ps \in {"", ".cost"}, ss \in {"", ".state"},
        ls \in {"a@href", "a.link"}, re \in {DefaultRegex, InvalidRegex} }

\* The loop of line 204 reaches a card.
CardArrive ==
    /\ cd.state = "idle"
    /\ \E site \in CardSites, card \in CardTexts :
           cd' = [state |-> "card", site |-> site, card |-> card, page_url |-> U1]
    /\ UNCHANGED <<mainVars, h, pg, gc>>

\* Lines 205-248 for that card.
CardExtract ==
    /\ cd.state = "card"
    /\ IF CardRaises(cd.site)
       THEN cd' = [cd EXCEPT !.state = "raised"]
       ELSE cd' = [state |-> "done", site |-> cd.site, card |-> cd.card,
                   page_url |-> cd.page_url,
                   row |-> ExtractCard(cd.site, cd.card, cd.page_url, 1)]
    /\ UNCHANGED <<mainVars, h, pg, gc>>

----------------------------------------------------------------------------
(* main (lines 157-268) *)

\* The number of runs of main() a behaviour holds.
MaxRuns == 2

\* The number of rows one run collects and the number of lines of the history
\* file (the header and the rows) a behaviour reaches.
MaxRunRows == 2

MaxFileLines == 4

\* The clock readings of line 203.
ClockReadings == {1, 2}

\* Lines 158-162.  pd.read_csv raises when the catalog cannot be read.
MainStart ==
    /\ pc \in {"idle", "done", "crashed"}
    /\ runNo < MaxRuns
    /\ runNo' = runNo + 1
    /\ \/ /\ pc' = "crashed"
          /\ exitOk' = FALSE
          /\ df' = <<>>
       \/ /\ df' \in Catalogs
          /\ pc' = "site"
          /\ exitOk' = TRUE
    /\ history_rows' = <<>>
    /\ siteIdx' = 1
    /\ page_urls' = <<>>
    /\ pageIdx' = 0
    /\ pg' = PagesIdle
    /\ net' = <<>>
    /\ UNCHANGED <<historyFile, snapshotFile, h, cd, gc>>

\* Lines 164-185: the next row of the catalog; iterate_pages is entered.
SiteEnter ==
    /\ pc = "site"
    /\ siteIdx <= Len(df)
    /\ LET site == df[siteIdx]
       IN  pg' = PagesEnter(site.url, site.paging_mode, site.page_param,
                            site.start_page, site.max_pages, site.mobile_fallback)
    /\ pc' = "paginate"
    /\ net' = <<>>
    /\ UNCHANGED <<runNo, siteIdx, page_urls, pageIdx, history_rows, historyFile,
                   snapshotFile, exitOk, df, h, cd, gc>>

\* Line 184: iterate_pages returns page_urls; its frame is gone.
PagesReturn ==
    /\ pc = "paginate"
    /\ pg.state = "returned"
    /\ page_urls' = pg.urls
    /\ pageIdx' = 1
    /\ pc' = "page"
    /\ net' = pg.events
    /\ pg' = PagesIdle
    /\ UNCHANGED <<runNo, siteIdx, history_rows, historyFile, snapshotFile, exitOk,
                   df, h, cd, gc>>

\* Line 192 as a break: the pages left of the site are given up.
ContinueAtEnd(idx, urls) == Len(urls) + 1

\* Line 192: continue, the loop of line 188 goes on with the next page URL.
ContinueAt(idx, urls) == idx + 1

\* The number of http_get calls a log holds.
CallsOf(log) == Cardinality({log[i].call : i \in 1..Len(log)} \ {0})

\* Lines 188-249 for one page URL: the fetch, and on no response the continue
\* of line 192, else the cards and the sleep of line 249.
PageStep ==
    /\ pc = "page"
    /\ pageIdx <= Len(page_urls)
    /\ \E ts \in ClockReadings,
          f \in { LET call == http_get(page_urls[pageIdx], DefaultRetries,
                                       df[siteIdx].mobile_fallback, script)
                  IN  [result |-> call.result, events |-> call.events, url |-> call.url] :
                  script \in PageScripts } :
        LET site == df[siteIdx]
            page_url == page_urls[pageIdx]
            r == f.result
            cards == IF r = NoResponse THEN <<>> ELSE get_cards(r, site.list_selector)
            sent == net \o NetOfCall(f, "extract", CallsOf(net) + 1)
        IN  /\ Len(history_rows) + Len(cards) <= MaxRunRows
            /\ Len(historyFile.lines) + Len(history_rows) + Len(cards) <= MaxFileLines
            /\ IF r = NoResponse
               THEN /\ net' = sent
                    /\ pageIdx' = ContinueAt(pageIdx, page_urls)
                    /\ UNCHANGED <<pc, exitOk, history_rows>>
               ELSE IF cards # <<>> /\ CardRaises(site)
               THEN /\ pc' = "crashed"
                    /\ exitOk' = FALSE
                    /\ net' = sent
                    /\ UNCHANGED <<history_rows, pageIdx>>
               ELSE /\ history_rows' = history_rows \o ExtractCards(site, cards, page_url, ts)
                    /\ pageIdx' = pageIdx + 1
                    /\ net' = Append(sent, jitter_sleep("extract", page_url))
                    /\ UNCHANGED <<pc, exitOk>>
    /\ UNCHANGED <<runNo, siteIdx, page_urls, historyFile, snapshotFile, df, h, pg, cd, gc>>

\* PagesDone with lines 252-268 inside the loop of line 164: the files are
\* written after each site.
PagesDoneFlush ==
    /\ pc = "page"
    /\ pageIdx > Len(page_urls)
    /\ siteIdx' = siteIdx + 1
    /\ pc' = "site"
    /\ net' = <<>>
    /\ historyFile' = IF history_rows # <<>>
                      THEN AppendHistory(historyFile, history_rows)
                      ELSE historyFile
    /\ snapshotFile' = SnapshotOf(historyFile', history_rows)
    /\ UNCHANGED <<runNo, page_urls, pageIdx, history_rows, exitOk, df, h, pg, cd, gc>>

\* The loop of line 188 ends: the next row of the catalog.
PagesDone ==
    /\ pc = "page"
    /\ pageIdx > Len(page_urls)
    /\ siteIdx' = siteIdx + 1
    /\ pc' = "site"
    /\ net' = <<>>
    /\ UNCHANGED <<runNo, page_urls, pageIdx, history_rows, historyFile, snapshotFile,
                   exitOk, df, h, pg, cd, gc>>

\* Lines 252-268: the history and the snapshot are written; main returns.
WriteOutputs ==
    /\ pc = "site"
    /\ siteIdx > Len(df)
    /\ historyFile' = IF history_rows # <<>>
                      THEN AppendHistory(historyFile, history_rows)
                      ELSE historyFile
    /\ snapshotFile' = SnapshotOf(historyFile', history_rows)
    /\ pc' = "done"
    /\ UNCHANGED <<runNo, siteIdx, page_urls, pageIdx, history_rows, exitOk, df,
                   h, pg, cd, gc, net>>

----------------------------------------------------------------------------
(* Specifications *)

Init ==
    /\ pc = "idle"
    /\ runNo = 0
    /\ siteIdx = 1
    /\ page_urls = <<>>
    /\ pageIdx = 0
    /\ history_rows = <<>>
    /\ historyFile = NoFile
    /\ snapshotFile = NoFile
    /\ exitOk = TRUE
    /\ df = <<>>
    /\ h = HttpIdle
    /\ pg = PagesIdle
    /\ cd = CardIdle
    /\ gc = CardsIdle
    /\ net = <<>>

\* Runs of main(), one after the other, on the files the runs before left.
Next ==
    \/ MainStart
    \/ SiteEnter
    \/ LinkStep
    \/ PagesReturn
    \/ PageStep
    \/ PagesDone
    \/ WriteOutputs

Spec == Init /\ [][Next]_vars

\* Calls of http_get.
NextHttp == HttpCall \/ HttpStep

SpecHttp == Init /\ [][NextHttp]_vars

\* Calls of iterate_pages.
NextPages == PagesCallParam \/ PagesCallLink \/ PagesCallNone \/ LinkStep

SpecPages == Init /\ [][NextPages]_vars

\* Cards met by the loop of line 204.
NextCard == CardArrive \/ CardExtract

SpecCard == Init /\ [][NextCard]_vars

\* Calls of get_cards.
NextCards == CardsCall

SpecCards == Init /\ [][NextCards]_vars

----------------------------------------------------------------------------
(* Properties *)

IsPrefix(s, t) == Len(s) <= Len(t) /\ SubSeq(t, 1, Len(s)) = s

\* The data rows of a CSV file: its lines after the header.
DataRows(file) == IF file.lines = <<>> THEN <<>> ELSE Tail(file.lines)

\* The rows of a file that hold the pair (site_name, product_url) of row r.
SameKey(rows, r) ==
    {j \in 1..Len(rows) : /\ rows[j].site_name = r.site_name
                          /\ rows[j].product_url = r.product_url}

\* Every (site_name, product_url) pair of the history has exactly one row in
\* the snapshot.
OneRowPerKey ==
    LET hist == DataRows(historyFile)
        snap == DataRows(snapshotFile)
    IN  \A i \in 1..Len(hist) : Cardinality(SameKey(snap, hist[i])) = 1

\* The snapshot row of every pair holds the greatest timestamp of the rows of
\* that pair in the history.
LatestPerKey ==
    LET hist == DataRows(historyFile)
        snap == DataRows(snapshotFile)
    IN  \A i \in 1..Len(hist) : \A j \in SameKey(snap, hist[i]) :
            /\ \A k \in SameKey(hist, hist[i]) :
                   hist[k].timestamp_iso <= snap[j].timestamp_iso
            /\ \E k \in SameKey(hist, hist[i]) :
                   hist[k].timestamp_iso = snap[j].timestamp_iso

\* C1: at the end of a run that extracted at least one record, the snapshot
\* holds exactly one row per distinct (site_name, product_url) pair of the
\* whole history file, that row holds the greatest timestamp of its pair, and
\* the snapshot computed again from the same history is the same rows in the
\* same order.
C1_SnapshotOneRowPerKey ==
    (pc = "done" /\ history_rows # <<>>) =>
        /\ OneRowPerKey
        /\ LatestPerKey
        /\ snapshotFile.lines = ToCsv(BuildSnapshot(historyFile.lines), TRUE)

\* C2: after every completed run, also one that extracted nothing after runs
\* that extracted something, every (site_name, product_url) pair of the
\* history file has exactly one row in the snapshot file.
C2_SnapshotCoversHistory ==
    pc = "done" => (snapshotFile.exists /\ OneRowPerKey)

\* A file holds the header line once, as its first line.
HeaderOnce(file) ==
    file.exists =>
        /\ file.lines # <<>>
        /\ file.lines[1] = HeaderLine
        /\ \A i \in 2..Len(file.lines) : file.lines[i] # HeaderLine

\* C3: the history is append-only across runs: every step keeps the lines of
\* the history file as a prefix of the file, the step that ends a run adds the
\* rows the run collected, all of them and in the order of their extraction,
\* after the lines the file held, rows collected during a run are only added
\* at the end of history_rows, and the file holds the header line once, first.
C3_HistoryAppendOnly ==
    [][ /\ IsPrefix(historyFile.lines, historyFile'.lines)
        /\ HeaderOnce(historyFile')
        /\ (pc = "page" /\ pc' = "page") => IsPrefix(history_rows, history_rows')
        /\ (pc' = "done" /\ pc # "done" /\ history_rows # <<>>) =>
               /\ Len(historyFile'.lines) =
                      (IF historyFile.exists THEN Len(historyFile.lines) ELSE 1)
                      + Len(history_rows)
               /\ \A i \in 1..Len(history_rows) :
                      LET l == historyFile'.lines[Len(historyFile'.lines)
                                                  - Len(history_rows) + i]
                      IN  /\ l.timestamp_iso = history_rows[i].timestamp_iso
                          /\ l.site_name = history_rows[i].site_name
                          /\ l.product_name = history_rows[i].product_name
                          /\ l.product_url = history_rows[i].product_url
                          /\ l.status = history_rows[i].status
                          /\ l.source_url = history_rows[i].source_url
      ]_vars

\* A second run has added its rows after those of the first, and the file
\* holds a row twice.
C3_Witness ==
    /\ pc = "done"
    /\ runNo = 2
    /\ history_rows # <<>>
    /\ Len(historyFile.lines) > 1 + Len(history_rows)
    /\ \E i, j \in 2..Len(historyFile.lines) : i < j /\ historyFile.lines[i] = historyFile.lines[j]

Distinct(seq) == \A i, j \in 1..Len(seq) : i # j => seq[i] # seq[j]

\* C4: link-mode pagination returns after at most max_pages passes of its
\* loop, for one of the reasons it may stop for, and the list it returns holds
\* at most max_pages URLs, pairwise distinct, none of them requested twice.
C4_LinkPagination ==
    pg.state = "returned" /\ pg.mode = "link" =>
        /\ pg.i <= pg.max_pages
        /\ pg.stop \in {"max_pages", "no_next", "visited", "fetch_failed"}
        /\ Len(pg.urls) <= pg.max_pages
        /\ Distinct(pg.urls)
        /\ Distinct(pg.fetched)

\* The query of a URL sets the parameter `name` once, to the number p.
SetsPage(url, name, p) ==
    Cardinality({i \in 1..Len(url.query) : url.query[i][1] = name}) = 1
    /\ \E i \in 1..Len(url.query) : url.query[i] = <<name, ToString(p)>>

\* C5: param-mode pagination with start_page >= 0 and max_pages >= 0 returns
\* max_pages URLs, the i-th being the base URL with the page parameter set to
\* start_page + i - 1, and issues no request; start_page 1, max_pages 2,
\* page_param page and the base x/cat give x/cat?page=1, x/cat?page=2.
C5_ParamPagination ==
    pg.state = "returned" /\ pg.mode = "param" =>
        /\ pg.gets = 0
        /\ Len(pg.urls) = pg.max_pages
        /\ \A i \in 1..Len(pg.urls) :
               /\ pg.urls[i].path = pg.url.path
               /\ SetsPage(pg.urls[i], IF pg.page_param = "" THEN "page" ELSE pg.page_param,
                           pg.start_page + i - 1)
        /\ (pg.url = U0 /\ pg.page_param = "page" /\ pg.start_page = 1 /\ pg.max_pages = 2)
               => pg.urls = <<U1, U2>>

\* The page texts of the model that hold no bot-wall marker, in any case, and
\* are not empty.
CleanBodies == { <<"Products">>, <<"access", "Products", "denied">> }

\* An answer a caller can use: a 200 response with a clean text.
GoodAnswer(out) ==
    out.kind = "response" /\ out.status_code = 200 /\ out.text \in CleanBodies

\* C6: whatever the server answers, http_get issues at most `retries` GETs,
\* issues none after the first usable answer and returns that answer, and
\* returns failure exactly when it made `retries` attempts of which none was
\* usable; three 503 answers and then a usable 200, with retries = 4, return
\* that 200 response.
C6_HttpGetRetries ==
    h.state = "returned" =>
        /\ Len(h.log) <= h.retries
        /\ \A i \in 1..(Len(h.log) - 1) : ~GoodAnswer(h.log[i])
        /\ h.result # NoResponse =>
               (h.log # <<>> /\ h.result = h.log[Len(h.log)] /\ GoodAnswer(h.result))
        /\ h.result = NoResponse <=>
               (Len(h.log) = h.retries /\ \A i \in 1..Len(h.log) : ~GoodAnswer(h.log[i]))

\* Three 503 answers, then a usable 200 that the call with retries = 4 returns.
C6_Witness ==
    /\ h.state = "returned"
    /\ h.retries = DefaultRetries
    /\ Len(h.log) = 4
    /\ \A i \in 1..3 : h.log[i].kind = "response" /\ h.log[i].status_code = 503
    /\ h.result = h.log[4]
    /\ h.result.status_code = 200

\* The page texts of the model that hold a bot-wall marker in some case.
WallBodies ==
    { <<"Just", "a", "moment">>, <<"JUST", "A", "MOMENT">>, <<"Products", "CAPTCHA">>,
      <<"cf-browser-verification">>, <<"Access", "Denied", "Products">> }

IsWallAnswer(out) ==
    out.kind = "response" /\ out.status_code = 200 /\ out.text \in WallBodies

\* C7: http_get never returns a response whose text holds a bot-wall marker
\* in any case; a 200 answer that holds one is a failed attempt: the call goes
\* on to the next attempt, or returns failure when it was the last.
C7_NoBotWallReturned ==
    /\ h.state = "returned" /\ h.result # NoResponse => ~IsWallAnswer(h.result)
    /\ h.state \in {"running", "returned"} =>
           \A i \in 1..Len(h.log) : IsWallAnswer(h.log[i]) =>
               \/ i < Len(h.log)
               \/ h.state = "running"
               \/ (h.result = NoResponse /\ i = h.retries)

\* A bot wall in capitals was answered first, and the call returned the page
\* a later attempt got.
C7_Witness ==
    /\ h.state = "returned"
    /\ h.result # NoResponse
    /\ Len(h.log) >= 2
    /\ h.log[1].kind = "response"
    /\ h.log[1].status_code = 200
    /\ h.log[1].text = <<"Products", "CAPTCHA">>

\* C8: the status of a record: Sold Out when the status text of the card
\* matches the sold-out pattern in any case, with or without a price;
\* otherwise Available when the raw price text of the record is not empty;
\* otherwise Unknown.
C8_StatusPriority ==
    cd.state = "done" =>
        LET matched == SoldOutMatch(cd.site.soldout_regex, CardStatusText(cd.site, cd.card))
        IN  /\ matched => cd.row.status = "Sold Out"
            /\ (~matched /\ cd.row.raw_price_text # <<>>) => cd.row.status = "Available"
            /\ (~matched /\ cd.row.raw_price_text = <<>>) => cd.row.status = "Unknown"

\* A card whose status text reads SOLD OUT and that shows a price is Sold Out.
C8_Witness ==
    /\ cd.state = "done"
    /\ cd.card.status_generic = <<"SOLD", " ", "OUT">>
    /\ cd.card.status_sel = NoneVal
    /\ cd.row.raw_price_text = <<"1", "0", " ", "EGP">>
    /\ cd.row.status = "Sold Out"

\* C9: no row of the history has both an empty product_name and an empty
\* product_url.
C9_NoRowWithoutNameAndUrl ==
    \A i \in 1..Len(DataRows(historyFile)) :
        ~(DataRows(historyFile)[i].product_name = <<>>
          /\ DataRows(historyFile)[i].product_url = <<>>)

\* C10: a run that has ended, also after a fault, has exited successfully and
\* has written the output files, with the rows it had collected at the end of
\* the history file.
C10_FaultsCaught ==
    pc \in {"done", "crashed"} =>
        /\ exitOk
        /\ snapshotFile.exists
        /\ history_rows # <<>> =>
               /\ historyFile.exists
               /\ Len(historyFile.lines) > Len(history_rows)

\* The step is an extraction fetch (line 189) that got no response: its last
\* attempt was followed by the backoff sleep of line 102.
ExtractFetchFailed ==
    /\ pc = "page"
    /\ Len(net') > Len(net)
    /\ net'[Len(net')].phase = "extract"
    /\ net'[Len(net')].why = "backoff"

\* The lines the rows of a run make at the end of the history file.
WrittenLast(file, rows) ==
    /\ file.exists
    /\ Len(file.lines) > Len(rows)
    /\ SubSeq(file.lines, Len(file.lines) - Len(rows) + 1, Len(file.lines))
           = ToCsv(rows, FALSE)

\* C11: an extraction fetch that fails after all its attempts skips that page
\* and nothing else: the step adds no record and writes no file, the loop
\* goes on with the next page URL of the same site (and from there with the
\* sites that follow), every extraction fetch requests the page URL the loop
\* is at, and the run that ends writes all the records it collected, those
\* from before and from after the failure, to the history file.
C11_FailedPageSkipped ==
    [][ /\ ExtractFetchFailed =>
               /\ history_rows' = history_rows
               /\ pc' = "page"
               /\ pageIdx' = pageIdx + 1
               /\ <<siteIdx, page_urls, df, exitOk, historyFile, snapshotFile>>'
                      = <<siteIdx, page_urls, df, exitOk, historyFile, snapshotFile>>
        /\ (pc = "page" /\ Len(net') > Len(net)) =>
               \A i \in (Len(net) + 1)..Len(net') :
                   net'[i].url = page_urls[pageIdx]
        /\ (pc = "page" /\ pc' = "site") =>
               /\ pageIdx = Len(page_urls) + 1
               /\ siteIdx' = siteIdx + 1
        /\ (pc' = "done" /\ pc # "done" /\ history_rows # <<>>) =>
               WrittenLast(historyFile', history_rows)
      ]_vars

\* The second site of a run: the fetch of its first page failed, and the rows
\* collected are one from the site before and one from the page after.
C11_Witness ==
    /\ pc = "page"
    /\ siteIdx = 2
    /\ pageIdx = 3
    /\ Len(history_rows) = 2
    /\ history_rows[1].site_name # history_rows[2].site_name
    /\ \E i \in 1..Len(net) : /\ net[i].phase = "extract"
                               /\ net[i].why = "backoff"
                               /\ net[i].url = page_urls[1]
    /\ history_rows[2].source_url = page_urls[2]

\* C12: a fetch that fails during link-mode pagination ends the pagination of
\* that site there and fails nothing: iterate_pages returns the URLs of the
\* passes before and the URL whose fetch failed, never an empty list, and the
\* driver takes that list as the page URLs of the site, starts with the first
\* of them and keeps the records and the exit status it had.
C12_LinkFetchFailureEndsPagination ==
    [][ (pc = "paginate" /\ pg.state = "returned" /\ pg.stop = "fetch_failed") =>
            /\ pg.urls # <<>>
            /\ Len(pg.urls) = pg.i + 1
            /\ pg.urls[Len(pg.urls)] = pg.cur
            /\ pg.events[Len(pg.events)].why = "backoff"
            /\ pc' = "page"
            /\ page_urls' = pg.urls
            /\ pageIdx' = 1
            /\ <<siteIdx, df, exitOk, history_rows, historyFile, snapshotFile>>'
                   = <<siteIdx, df, exitOk, history_rows, historyFile, snapshotFile>>
      ]_vars

\* The fetch of the second page of a listing failed during pagination; the
\* driver has extracted a record from the first page and is at the second.
C12_Witness ==
    /\ pc = "page"
    /\ Len(page_urls) = 2
    /\ pageIdx = 2
    /\ history_rows # <<>>
    /\ \E i \in 1..(Len(net) - 1) : /\ net[i].phase = "paginate"
                               /\ net[i].why = "backoff"
                               /\ net[i].url = page_urls[2]
                               /\ net[i + 1].phase = "extract"

\* C13: after every run that extracted no record, the history file and the
\* snapshot file both exist and both start with the header line, and after a
\* first run of that kind neither holds a data row; no completed run leaves a
\* file missing.
C13_ZeroRecordFilesExist ==
    (pc = "done" /\ history_rows = <<>>) =>
        /\ historyFile.exists
        /\ snapshotFile.exists
        /\ HeaderOnce(historyFile)
        /\ HeaderOnce(snapshotFile)
        /\ runNo = 1 => (DataRows(historyFile) = <<>> /\ DataRows(snapshotFile) = <<>>)

\* C14: when several rows of the history with the same (site_name,
\* product_url) pair share the greatest timestamp of the pair, the snapshot
\* row of the pair is the one of them that comes last in the history.
C14_TieKeepsLastSeen ==
    (pc = "done" /\ history_rows # <<>>) =>
        LET hist == DataRows(historyFile)
            snap == DataRows(snapshotFile)
        IN  \A j \in 1..Len(snap) :
                LET grp == SameKey(hist, snap[j])
                    top == {i \in grp : \A k \in grp :
                                hist[k].timestamp_iso <= hist[i].timestamp_iso}
                IN  Cardinality(top) > 1 =>
                        snap[j] = hist[CHOOSE i \in top : \A k \in top : k <= i]

\* C15: within a run, a sleep is executed between any two consecutive GET
\* requests made for the same site, whichever loop makes them: no GET follows
\* a GET directly.
C15_SleepBetweenRequests ==
    \A i \in 1..(Len(net) - 1) :
        net[i].ev = "GET" => net[i + 1].ev = "SLEEP"

\* The attempts of the call so far used the desktop User-Agent before the
\* attempt with index `threshold` and, with the mobile fallback enabled, the
\* mobile one from that attempt on.
MobileFrom(threshold) ==
    h.state \in {"running", "returned"} =>
        \A i \in 1..Len(h.uas) :
            h.uas[i] = IF i - 1 >= threshold /\ h.mobile_fallback
                       THEN MOBILE_UA ELSE DESKTOP_UA

\* C16 as stated: whatever attempt threshold the configuration asks for, the
\* attempts of a call before it use the desktop User-Agent and those from it
\* on the mobile one when the mobile fallback is enabled, and none uses the
\* mobile one when it is disabled.
C16_ConfiguredThreshold ==
    \A threshold \in 0..MaxRetries : MobileFrom(threshold)

\* C16, amended: the first two attempts of a call (indices 0 and 1) use the
\* desktop User-Agent and every later attempt the mobile one when the mobile
\* fallback is enabled; with the fallback disabled every attempt uses the
\* desktop one.  The threshold is the 2 of line 88.
C16_MobileFromThirdAttempt ==
    /\ MobileFrom(2)
    /\ (h.state \in {"running", "returned"} /\ ~h.mobile_fallback) =>
           \A i \in 1..Len(h.uas) : h.uas[i] # MOBILE_UA

\* A call with the fallback enabled that made four attempts: two with the
\* desktop User-Agent, then two with the mobile one.
C16_Witness ==
    /\ h.state = "returned"
    /\ h.mobile_fallback
    /\ h.uas = <<DESKTOP_UA, DESKTOP_UA, MOBILE_UA, MOBILE_UA>>

\* The default selectors that match something in the page of the call.
MatchingDefaults ==
    {n \in 1..Len(DEFAULT_LIST_SELECTORS) :
        Select(gc.page, DEFAULT_LIST_SELECTORS[n]) # <<>>}

\* The explicit selector of the call is set, valid and matches something.
ExplicitMatches ==
    /\ gc.list_selector # ""
    /\ gc.list_selector \notin InvalidSelectors
    /\ Select(gc.page, gc.list_selector) # <<>>

\* The selector whose elements the call returns, "none" when it returns none.
MatchedSelector ==
    IF ExplicitMatches THEN gc.list_selector
    ELSE IF MatchingDefaults # {}
    THEN DEFAULT_LIST_SELECTORS[CHOOSE n \in MatchingDefaults :
                                    \A k \in MatchingDefaults : n <= k]
    ELSE "none"

\* The cards a call returns are those of the explicit selector when it
\* matches, else those of the first default selector that matches, else none.
FirstMatchChain ==
    gc.state = "returned" =>
        /\ ExplicitMatches => gc.returned.cards = Select(gc.page, gc.list_selector)
        /\ (~ExplicitMatches /\ MatchingDefaults # {}) =>
               /\ gc.returned.cards = Select(gc.page, MatchedSelector)
               /\ gc.returned.cards # <<>>
        /\ (~ExplicitMatches /\ MatchingDefaults = {}) => gc.returned.cards = <<>>

\* C17 as stated: the first-match chain, with the selector that matched
\* handed to the caller along with the cards.
C17_MatchedSelectorReturned ==
    gc.state = "returned" =>
        /\ FirstMatchChain
        /\ "selector" \in DOMAIN gc.returned
        /\ gc.returned.selector = MatchedSelector

\* C17, amended: the first-match chain; the call returns the cards and nothing
\* else, and the selector that matched is named, with the number of cards, by
\* the last line the call printed.
C17_FirstMatchFallback ==
    gc.state = "returned" =>
        /\ FirstMatchChain
        /\ DOMAIN gc.returned = {"cards"}
        /\ gc.returned.cards # <<>> =>
               /\ gc.printed # <<>>
               /\ gc.printed[Len(gc.printed)].sel = MatchedSelector
               /\ gc.printed[Len(gc.printed)].n = Len(gc.returned.cards)
               /\ gc.printed[Len(gc.printed)].what \in {"primary", "fallback"}
        /\ gc.returned.cards = <<>> =>
               \A i \in 1..Len(gc.printed) : gc.printed[i].n = 0

\* An explicit selector that matches nothing, on a page where the second and
\* the last default selector match: the cards are those of the second.
C17_Witness ==
    /\ gc.state = "returned"
    /\ gc.list_selector = ".missing"
    /\ Select(gc.page, "li.product") = <<CardC>>
    /\ Select(gc.page, "li.product-item") = <<CardBC, CardSold>>
    /\ gc.returned.cards = <<CardC>>
    /\ gc.printed[Len(gc.printed)].sel = "li.product"

\* C18: the history and the snapshot file are written only at the end of a
\* run: a step changes either file only when the loop over the sites of the
\* catalog is over, and that step ends the run; it appends the rows of a run
\* that extracted records to the history in one piece and leaves the history
\* alone otherwise; the next step starts another run.
C18_WrittenOnlyAtEnd ==
    [][ /\ (historyFile' # historyFile \/ snapshotFile' # snapshotFile) =>
               /\ pc = "site"
               /\ siteIdx > Len(df)
               /\ pc' = "done"
        /\ (pc' = "done" /\ pc # "done") =>
               IF history_rows # <<>>
               THEN /\ WrittenLast(historyFile', history_rows)
                    /\ Len(historyFile'.lines) =
                           (IF historyFile.exists THEN Len(historyFile.lines) ELSE 1)
                           + Len(history_rows)
               ELSE historyFile' = historyFile
        /\ pc = "done" => (pc' = "done" \/ runNo' = runNo + 1)
      ]_vars

\* A run over two sites that extracted a record from each has ended: its two
\* rows are the only rows of the history file.
C18_Witness ==
    /\ pc = "done"
    /\ Len(df) = 2
    /\ Len(history_rows) = 2
    /\ history_rows[1].site_name # history_rows[2].site_name
    /\ Len(historyFile.lines) = 3

\* The http_get calls of a phase that requested a URL, by their numbers.
CallsFor(log, phase, url) ==
    {log[i].call : i \in {j \in 1..Len(log) : /\ log[j].ev = "GET"
                                               /\ log[j].phase = phase
                                               /\ log[j].url = url}}

\* The requests made for a link-mode site whose extraction loop is at index
\* idx of urls: one pagination call per URL of the list, all pagination
\* requests before all extraction requests, one extraction call per URL the
\* loop has passed and none yet for the others.
TwoPasses(log, urls, idx) ==
    /\ \A k \in 1..Len(urls) : Cardinality(CallsFor(log, "paginate", urls[k])) = 1
    /\ \A i, j \in 1..Len(log) :
           (log[i].phase = "paginate" /\ log[j].phase = "extract") => i < j
    /\ \A k \in 1..Len(urls) :
           /\ k < idx => Cardinality(CallsFor(log, "extract", urls[k])) = 1
           /\ k >= idx => CallsFor(log, "extract", urls[k]) = {}
           /\ CallsFor(log, "extract", urls[k]) \cap CallsFor(log, "paginate", urls[k]) = {}

\* C19: for a link-mode site, every URL iterate_pages returned was requested
\* by one http_get call during pagination; no extraction request is made
\* before the pagination has returned; the driver requests each returned URL
\* again, in a call of its own, and the records of a page are added in the
\* step of that second call, never during pagination.
C19_LinkPagesFetchedTwice ==
    [][ /\ (pc' = "page" /\ df'[siteIdx'].paging_mode = "link") =>
               TwoPasses(net', page_urls', pageIdx')
        /\ pc = "paginate" =>
               /\ history_rows' = history_rows
               /\ \A i \in 1..Len(net') : net'[i].phase = "paginate"
        /\ (pc = "page" /\ history_rows' # history_rows) =>
               /\ IsPrefix(history_rows, history_rows')
               /\ \A i \in (Len(history_rows) + 1)..Len(history_rows') :
                      history_rows'[i].source_url = page_urls[pageIdx]
               /\ \E i \in (Len(net) + 1)..Len(net') :
                      /\ net'[i].ev = "GET"
                      /\ net'[i].phase = "extract"
                      /\ net'[i].url = page_urls[pageIdx]
      ]_vars

\* A link-mode site with two pages, both requested during pagination and both
\* requested again by the driver, which extracted a record.
C19_Witness ==
    /\ pc = "page"
    /\ df[siteIdx].paging_mode = "link"
    /\ Len(page_urls) = 2
    /\ pageIdx = 3
    /\ history_rows # <<>>
    /\ \A k \in 1..2 : /\ CallsFor(net, "paginate", page_urls[k]) # {}
                        /\ CallsFor(net, "extract", page_urls[k]) # {}

\* The key of line 260 of a line of a CSV file, as the run reads it back.
LineKey(l) ==
    KeyOf([site_name |-> ReadCell(l.site_name), product_url |-> ReadCell(l.product_url)])

\* The lines the runs before this one left in the history file.
EarlierLines ==
    SubSeq(historyFile.lines, 2, Len(historyFile.lines) - Len(history_rows))

\* Every timestamp of this run is later than every timestamp of the runs
\* before it.
ClockIncreased ==
    \A i \in 1..Len(history_rows) : \A j \in 1..Len(EarlierLines) :
        EarlierLines[j].timestamp_iso < history_rows[i].timestamp_iso

\* A line of the snapshot is a record of this run.
FromThisRun(l) ==
    /\ \E i \in 1..Len(history_rows) : l = CsvLine(history_rows[i])
    /\ \A j \in 1..Len(EarlierLines) : EarlierLines[j].timestamp_iso < l.timestamp_iso

\* C20: when the clock has increased from the runs before to this run, then
\* after a run that extracted records, for every record of the run the
\* snapshot holds a row under the key of that record which is a record of
\* this run, and every snapshot row with the (site_name, product_url) pair of
\* the record is a record of this run, none of an earlier one.
C20_SnapshotRowFromLatestRun ==
    (pc = "done" /\ history_rows # <<>> /\ ClockIncreased) =>
        LET snap == DataRows(snapshotFile)
        IN  \A i \in 1..Len(history_rows) :
                /\ \E j \in 1..Len(snap) :
                       /\ LineKey(snap[j]) = LineKey(CsvLine(history_rows[i]))
                       /\ FromThisRun(snap[j])
                /\ \A j \in SameKey(snap, CsvLine(history_rows[i])) :
                       FromThisRun(snap[j])

\* A second run has extracted a product the first run had extracted: the
\* history holds both rows and the snapshot the later one.
C20_Witness ==
    /\ pc = "done"
    /\ runNo = 2
    /\ ClockIncreased
    /\ Len(history_rows) = 1
    /\ Len(EarlierLines) = 1
    /\ EarlierLines[1].site_name = history_rows[1].site_name
    /\ EarlierLines[1].product_url = history_rows[1].product_url
    /\ DataRows(snapshotFile) = <<CsvLine(history_rows[1])>>

====
